---- MODULE Spec2Model ----
(***************************************************************************)
(* Streaming pipeline of binance_ema_ma: web_main.py wires the Binance     *)
(* WebSocket handlers (start_ws), the fallback price poller               *)
(* (start_price_poller), the bounded events queue and the SSE subscriber   *)
(* streams (create_app.events_status).                                     *)
(*                                                                         *)
(* Threads: the WebSocket thread runs on_open / on_error / on_close /      *)
(* on_kline one at a time; every poller is a daemon thread of its own;     *)
(* every subscriber stream is a generator run by the web server.           *)
(***************************************************************************)
EXTENDS Naturals, Integers, Sequences, FiniteSets, TLC

\* ---- bounds of the model ------------------------------------------------
MaxPollers == 2      \* poller threads ever started
MaxBurst == 2        \* consecutive primary_error / primary_closed events counted
MaxTime == 1         \* readings of time.time() range over 0..MaxTime
MaxBars == 1         \* finalized bars the engine holds at most
\* queue.Queue(maxsize=1000) in main; the queue is checked at a reduced
\* capacity, put_nowait compares qsize against it whatever its value
maxsize == 2
MaxLen == 3          \* length of the lists handed to indicators.py
MaxVal == 1          \* the floats in those lists are -1..MaxVal

None == 0
PollerIds == 1..MaxPollers
\* the clients that may open /events/status
Subscribers == {1, 2}

VARIABLES
    enable_poller,   \* web.enable_price_poller of config.json
    poller_stop,     \* poller_stop["fn"]: None or the poller whose stop_flag it holds
    pc,              \* position of every poller thread in run()
    stop_flag,       \* the threading.Event of every poller
    origin,          \* who started the poller: "fallback" (handlers) or "main"
    k,               \* the kline a poller built in its current tick
    failed,          \* the poller's last attempt raised inside the try block
    ws_pc,           \* position of the WebSocket thread in on_kline
    ws_k,            \* the kline on_kline is handling
    last_event,      \* most recent primary event delivered to the handlers
    burst_len,       \* primary_error / primary_closed events since the last primary_opened
    burst_starts,    \* pollers started since the last primary_opened
    stopped,         \* pollers for which stop_poller_if_running has returned
    timestamps,      \* engine.timestamps, close times of the finalized bars
    now,             \* time.time()
    events_q,        \* the events queue
    last_put,        \* the most recent put_nowait: its outcome and the snapshot offered
    for_all,         \* queued snapshots, counted from the newest, accepted with every client connected
    subscribers,     \* connected /events/status streams
    args,            \* the call of indicators.py to make: function and arguments
    ret,             \* what that call returned or raised
    yielded          \* the snapshots every stream has yielded so far

vars == <<enable_poller, poller_stop, pc, stop_flag, origin, k, failed, ws_pc, ws_k,
          last_event, burst_len, burst_starts, stopped, timestamps, now,
          events_q, last_put, for_all, subscribers, yielded,
          args, ret>>

ctl_vars == <<poller_stop, last_event, burst_len, burst_starts, stopped>>
poller_vars == <<pc, stop_flag, origin, k, failed>>
ws_vars == <<ws_pc, ws_k>>
sub_vars == <<subscribers, yielded>>
q_vars == <<events_q, last_put, for_all>>
ind_vars == <<args, ret>>

NoKline == [is_final |-> FALSE, open_time |-> 0, close_time |-> 0]

Last(s) == s[Len(s)]

\* no call of indicators.py is under way
NoArgs == [fn |-> "none", list1 |-> <<>>, list2 |-> <<>>, n |-> 0, mode |-> "mean_diff",
           normalize_by_ema |-> TRUE, strict_monotonic |-> FALSE, min_slope |-> <<0, 1>>]
NoRet == [fn |-> "none", exc |-> "none", val |-> <<>>]

\* start_ws(..., enable_fallback_poller=not enable_poller)
enable_fallback_poller == ~enable_poller

\* ---- start_price_poller ---------------------------------------------------
Started == {p \in PollerIds : pc[p] # "none"}
Running == {p \in PollerIds : pc[p] \notin {"none", "done"}}
NextPoller == Cardinality(Started) + 1

\* stop_flag = threading.Event(); th.start(); return stop_flag
start_price_poller(by) ==
    /\ pc' = [pc EXCEPT ![NextPoller] = "while"]
    /\ stop_flag' = [stop_flag EXCEPT ![NextPoller] = FALSE]
    /\ origin' = [origin EXCEPT ![NextPoller] = by]
    /\ UNCHANGED <<k, failed>>

InitPipeline ==
    /\ enable_poller \in BOOLEAN
    /\ poller_stop = None
    \* main starts the permanent poller when enable_price_poller is set
    /\ pc = [p \in PollerIds |-> IF enable_poller /\ p = 1 THEN "while" ELSE "none"]
    /\ stop_flag = [p \in PollerIds |-> FALSE]
    /\ origin = [p \in PollerIds |-> IF enable_poller /\ p = 1 THEN "main" ELSE "none"]
    /\ k = [p \in PollerIds |-> NoKline]
    /\ failed = [p \in PollerIds |-> FALSE]
    /\ ws_pc = "idle"
    /\ ws_k = NoKline
    /\ last_event = "none"
    /\ burst_len = 0
    /\ burst_starts = 0
    /\ stopped = {}
    \* engine.ingest_historical(hist): hist may be empty
    /\ timestamps \in {<<>>, <<1>>}
    /\ now = 0
    /\ events_q = <<>>
    /\ last_put = [res |-> "none", snap |-> [server_time |-> 0]]
    /\ for_all = 0
    /\ subscribers = {}
    /\ yielded = [s \in Subscribers |-> {}]

Init ==
    /\ InitPipeline
    /\ args = NoArgs
    /\ ret = NoRet

\* ---- start_ws: the failover handlers --------------------------------------
\* ChannelState of the controller, read off the token
ChannelState == IF poller_stop = None THEN "PRIMARY_ACTIVE" ELSE "FALLBACK_ACTIVE"

\* start_poller_once that forgets to test the token
ShouldStart_NoToken == enable_fallback_poller

\* start_poller_once that forgets to test the configuration flag
ShouldStart_NoFlag == poller_stop = None

\* if poller_stop["fn"] is None and enable_fallback_poller:
ShouldStart == poller_stop = None /\ enable_fallback_poller

start_poller_once ==
    IF ShouldStart
    THEN /\ start_price_poller("fallback")
         /\ poller_stop' = NextPoller
         /\ burst_starts' = burst_starts + 1
    ELSE UNCHANGED <<poller_vars, poller_stop, burst_starts>>

\* poller_stop["fn"]() calls the threading.Event that start_price_poller
\* returned; an Event is not callable, the TypeError is swallowed by the
\* except clause and the flag of poller p stays as it was
CallStopFn(flags, p) == flags

\* a stop_poller_if_running that clears the token inside the try block, after
\* the call: the exception skips the assignment
stop_poller_KeepToken ==
    IF poller_stop # None
    THEN /\ stop_flag' = CallStopFn(stop_flag, poller_stop)
         /\ stopped' = stopped \cup {poller_stop}
         /\ UNCHANGED poller_stop
    ELSE UNCHANGED <<stop_flag, poller_stop, stopped>>

stop_poller_if_running ==
    IF poller_stop # None
    THEN /\ stop_flag' = CallStopFn(stop_flag, poller_stop)
         /\ poller_stop' = None
         /\ stopped' = stopped \cup {poller_stop}
    ELSE UNCHANGED <<stop_flag, poller_stop, stopped>>

\* the WebSocket thread delivers one callback at a time
on_open ==
    /\ ws_pc = "idle"
    /\ stop_poller_if_running
    /\ last_event' = "opened"
    /\ burst_len' = 0
    /\ burst_starts' = 0
    /\ UNCHANGED <<enable_poller, ind_vars, pc, origin, k, failed, ws_vars, timestamps, now,
                   q_vars, sub_vars>>

\* on_error and on_close have one body, start_poller_once(); ev names the event
PrimaryDown(ev) ==
    /\ ws_pc = "idle"
    /\ burst_len < MaxBurst
    /\ ShouldStart => NextPoller <= MaxPollers
    /\ start_poller_once
    /\ last_event' = ev
    /\ burst_len' = burst_len + 1
    /\ UNCHANGED <<enable_poller, ind_vars, stopped, ws_vars, timestamps, now,
                   q_vars, sub_vars>>

on_error == PrimaryDown("error")

on_close == PrimaryDown("closed")

\* ---- engine and queue -------------------------------------------------------
\* TradingEngine.on_realtime_kline: only a final bar with a new close time
\* advances the series
EngineApply(ts, kl) ==
    IF kl.is_final /\ (ts = <<>> \/ kl.close_time > Last(ts))
    THEN Append(ts, kl.close_time)
    ELSE ts

\* s = engine.status(); ...; s["server_time"] = int(time.time() * 1000)
Snapshot == [server_time |-> now]

\* a put that never reports Full
put_unbounded(q, s) == [q |-> Append(q, s), res |-> "ok"]

\* a put that makes room by discarding the oldest item
put_drop_oldest(q, s) ==
    IF Len(q) >= maxsize
    THEN [q |-> Append(Tail(q), s), res |-> "ok"]
    ELSE [q |-> Append(q, s), res |-> "ok"]

\* queue.Queue.put_nowait: raises queue.Full when the queue holds maxsize items
put_nowait(q, s) ==
    IF Len(q) >= maxsize
    THEN [q |-> q, res |-> "full"]
    ELSE [q |-> Append(q, s), res |-> "ok"]

Min(a, b) == IF a <= b THEN a ELSE b

\* for_all once a snapshot was accepted into the queue, which then is q
ForAllAfter(q) == IF subscribers = Subscribers THEN Min(for_all + 1, Len(q)) ELSE 0

\* events_q.put(s): waits for a free slot
OfferBlocking(s) ==
    /\ Len(events_q) < maxsize
    /\ events_q' = Append(events_q, s)
    /\ last_put' = [res |-> "ok", snap |-> s]
    /\ for_all' = ForAllAfter(events_q')

\* try: ... events_q.put_nowait(s)  except Exception: pass
Offer(s) ==
    LET r == put_nowait(events_q, s)
    IN  /\ events_q' = r.q
        /\ last_put' = [res |-> r.res, snap |-> s]
        /\ for_all' = IF r.res = "ok" THEN ForAllAfter(r.q) ELSE for_all

\* ---- on_kline on the WebSocket thread ---------------------------------------
LastTs == IF timestamps = <<>> THEN 0 ELSE Last(timestamps)

\* a kline of the bar in progress arrives and on_kline enters the engine
WsKline(final) ==
    /\ ws_pc = "idle"
    /\ last_event = "opened"
    /\ final => Len(timestamps) < MaxBars
    /\ ws_pc' = "engine"
    /\ ws_k' = [is_final |-> final, open_time |-> LastTs, close_time |-> LastTs + 1]
    /\ UNCHANGED <<enable_poller, ind_vars, ctl_vars, poller_vars, timestamps, now,
                   q_vars, sub_vars>>

\* engine.on_realtime_kline(k) returns
WsEngine ==
    /\ ws_pc = "engine"
    /\ timestamps' = EngineApply(timestamps, ws_k)
    /\ ws_pc' = "offer"
    /\ ws_k' = NoKline
    /\ UNCHANGED <<enable_poller, ind_vars, ctl_vars, poller_vars, now,
                   q_vars, sub_vars>>

WsOffer ==
    /\ ws_pc = "offer"
    /\ Offer(Snapshot)
    /\ ws_pc' = "idle"
    /\ UNCHANGED <<enable_poller, ind_vars, ctl_vars, poller_vars, ws_k, timestamps, now, sub_vars>>

\* ---- start_price_poller.run ---------------------------------------------------
\* a poll tick that marks its bar final
PollKline_Final ==
    LET close_time == IF timestamps # <<>> THEN Last(timestamps) ELSE now
    IN  [is_final |-> TRUE, open_time |-> close_time, close_time |-> close_time]

\* close_time = engine.timestamps[-1] if engine.timestamps else int(time.time() * 1000)
PollKline ==
    LET close_time == IF timestamps # <<>> THEN Last(timestamps) ELSE now
    IN  [is_final |-> FALSE, open_time |-> close_time, close_time |-> close_time]

\* a run() without the outer try block: the exception ends the thread
AfterRaise_Propagate == "done"

\* except Exception: pass, then time.sleep(2): where a poller goes when
\* anything inside its try block raises
AfterRaise == "sleep"

\* while not stop_flag.is_set():
PollerWhile(p) ==
    /\ pc[p] = "while"
    /\ pc' = [pc EXCEPT ![p] = IF stop_flag[p] THEN "done" ELSE "try"]
    /\ UNCHANGED <<enable_poller, ind_vars, ctl_vars, stop_flag, origin, k, failed, ws_vars,
                   timestamps, now, q_vars, sub_vars>>

\* price = client.get_price(engine.symbol) returns or raises; k = {...}
PollerTry(p) ==
    /\ pc[p] = "try"
    /\ \E ok \in BOOLEAN :
         IF ok
         THEN /\ pc' = [pc EXCEPT ![p] = "engine"]
              /\ k' = [k EXCEPT ![p] = PollKline]
              /\ failed' = [failed EXCEPT ![p] = FALSE]
         ELSE /\ pc' = [pc EXCEPT ![p] = AfterRaise]
              /\ failed' = [failed EXCEPT ![p] = TRUE]
              /\ UNCHANGED k
    /\ UNCHANGED <<enable_poller, ind_vars, ctl_vars, stop_flag, origin, ws_vars, timestamps, now,
                   q_vars, sub_vars>>

\* engine.on_realtime_kline(k) returns or raises
PollerEngine(p) ==
    /\ pc[p] = "engine"
    /\ \E ok \in BOOLEAN :
         IF ok
         THEN /\ timestamps' = EngineApply(timestamps, k[p])
              /\ pc' = [pc EXCEPT ![p] = "offer"]
              /\ UNCHANGED failed
         ELSE /\ pc' = [pc EXCEPT ![p] = AfterRaise]
              /\ failed' = [failed EXCEPT ![p] = TRUE]
              /\ UNCHANGED timestamps
    /\ k' = [k EXCEPT ![p] = NoKline]
    /\ UNCHANGED <<enable_poller, ind_vars, ctl_vars, stop_flag, origin, ws_vars, now,
                   q_vars, sub_vars>>

PollerOffer(p) ==
    /\ pc[p] = "offer"
    /\ Offer(Snapshot)
    /\ pc' = [pc EXCEPT ![p] = "sleep"]
    /\ UNCHANGED <<enable_poller, ind_vars, ctl_vars, stop_flag, origin, k, failed, ws_vars,
                   timestamps, now, sub_vars>>

\* time.sleep(2), then back to the loop condition
PollerSleep(p) ==
    /\ pc[p] = "sleep"
    /\ pc' = [pc EXCEPT ![p] = "while"]
    /\ UNCHANGED <<enable_poller, ind_vars, ctl_vars, stop_flag, origin, k, failed, ws_vars,
                   timestamps, now, q_vars, sub_vars>>

\* ---- /events/status -----------------------------------------------------------
\* a client opens the stream: Response(stream(), ...)
Connect(s) ==
    /\ s \notin subscribers
    /\ subscribers' = subscribers \cup {s}
    /\ UNCHANGED <<enable_poller, ind_vars, ctl_vars, poller_vars, ws_vars, timestamps, now,
                   q_vars, yielded>>

\* s = events_q.get(); yield ...
StreamGet(s) ==
    /\ s \in subscribers
    /\ events_q # <<>>
    /\ yielded' = [yielded EXCEPT ![s] = @ \cup {Head(events_q)}]
    /\ events_q' = Tail(events_q)
    /\ for_all' = Min(for_all, Len(events_q) - 1)
    /\ UNCHANGED <<enable_poller, ind_vars, ctl_vars, poller_vars, ws_vars, timestamps, now,
                   last_put, subscribers>>

\* the clock advances
Tick ==
    /\ now < MaxTime
    /\ now' = now + 1
    /\ UNCHANGED <<enable_poller, ind_vars, ctl_vars, poller_vars, ws_vars, timestamps,
                   q_vars, sub_vars>>

Next ==
    \/ on_open
    \/ on_error
    \/ on_close
    \/ \E final \in BOOLEAN : WsKline(final)
    \/ WsEngine
    \/ WsOffer
    \/ \E p \in PollerIds : PollerWhile(p)
    \/ \E p \in PollerIds : PollerTry(p)
    \/ \E p \in PollerIds : PollerEngine(p)
    \/ \E p \in PollerIds : PollerOffer(p)
    \/ \E p \in PollerIds : PollerSleep(p)
    \/ \E s \in Subscribers : Connect(s)
    \/ \E s \in Subscribers : StreamGet(s)
    \/ Tick

Spec == Init /\ [][Next]_vars

\* the ingestion side alone: no client is connected to /events/status
NextIngest ==
    \/ on_open
    \/ on_error
    \/ on_close
    \/ \E final \in BOOLEAN : WsKline(final)
    \/ WsEngine
    \/ WsOffer
    \/ \E p \in PollerIds : PollerWhile(p)
    \/ \E p \in PollerIds : PollerTry(p)
    \/ \E p \in PollerIds : PollerEngine(p)
    \/ \E p \in PollerIds : PollerOffer(p)
    \/ \E p \in PollerIds : PollerSleep(p)
    \/ Tick

SpecIngest == Init /\ [][NextIngest]_vars

\* the ingestion side as main starts it with enable_price_poller unset: the
\* handlers of start_ws have the fallback poller to themselves
InitFallback == Init /\ ~enable_poller

SpecFallback == InitFallback /\ [][NextIngest]_vars

\* the broadcast side: main ran with enable_price_poller set, so that the
\* WebSocket thread and the permanent poller both produce from the start
InitBroadcast == Init /\ enable_poller

SpecBroadcast == InitBroadcast /\ [][Next]_vars

\* ---- failover claims --------------------------------------------------------
FallbackLoops == {p \in Running : origin[p] = "fallback"}

\* threads inside engine.on_realtime_kline; 0 is the WebSocket thread
InEngine == (IF ws_pc = "engine" THEN {0} ELSE {}) \cup {p \in PollerIds : pc[p] = "engine"}

\* poller p performs a step of a poll tick: it calls client.get_price, returns
\* from engine.on_realtime_kline or offers a snapshot
TickStep(p) == pc[p] \in {"try", "engine", "offer"} /\ pc'[p] # pc[p]

\* C1: at most one fallback poll loop started by the handlers is running at
\* any instant, whatever the sequence of primary events
AtMostOneFallbackLoop == Cardinality(FallbackLoops) <= 1

\* C2: once on_open has returned from stop_poller_if_running, the poller it
\* stopped performs no further step of a poll tick
NoTickAfterStop == [][\A p \in stopped : ~TickStep(p)]_vars

\* C3: with fallback enabled, a run of primary_error / primary_closed events
\* with no primary_opened in between has started exactly one poll loop, which
\* is the one the token names
BurstStartsOnce ==
    enable_fallback_poller =>
        /\ burst_starts = (IF burst_len > 0 THEN 1 ELSE 0)
        /\ burst_len > 0 => (poller_stop # None /\ poller_stop \in FallbackLoops)

BurstStartsOnceWitness ==
    /\ enable_fallback_poller
    /\ burst_len >= 2
    /\ burst_starts = 1
    /\ last_event = "closed"

\* C4: a primary kline is never inside the engine while a poll loop is
\* running, and no two threads are inside engine.on_realtime_kline at once
SingleActiveChannel ==
    /\ ws_pc = "engine" => Running = {}
    /\ Cardinality(InEngine) <= 1

\* C10: with fallback disabled no primary event starts a poll loop and the
\* controller stays PRIMARY_ACTIVE
DisabledNeverStarts ==
    ~enable_fallback_poller =>
        /\ ChannelState = "PRIMARY_ACTIVE"
        /\ burst_starts = 0
        /\ \A p \in PollerIds : origin[p] # "fallback"

DisabledNeverStartsWitness ==
    /\ ~enable_fallback_poller
    /\ burst_len >= 2
    /\ last_event = "error"

\* ---- scheduling ---------------------------------------------------------------
PollerStep(p) ==
    PollerWhile(p) \/ PollerTry(p) \/ PollerEngine(p) \/ PollerOffer(p) \/ PollerSleep(p)

\* the WebSocket thread and the permanent poller of main produce side by side
\* and both keep being scheduled; the primary events, the klines and the
\* clock are under no obligation
FairProducers ==
    /\ InitBroadcast /\ [][NextIngest]_vars
    /\ WF_vars(WsEngine \/ WsOffer)
    /\ \A p \in PollerIds : WF_vars(PollerStep(p))

\* ---- broadcast claims -----------------------------------------------------------
Range(q) == {q[i] : i \in 1..Len(q)}

WsOfferStep == ws_pc = "offer" /\ ws_pc' # "offer"
PollerOfferStep(p) == pc[p] = "offer" /\ pc'[p] # "offer"
AnyOfferStep == WsOfferStep \/ \E p \in PollerIds : PollerOfferStep(p)

\* the snapshot at the head of the queue was accepted with every client connected
HeadForAll == events_q # <<>> /\ for_all = Len(events_q)

\* stream a takes the head of the queue in this step
Takes(a) == a \in subscribers /\ events_q # <<>> /\ events_q' = Tail(events_q)
                              /\ yielded'[a] = yielded[a] \cup {Head(events_q)}

\* C5: a snapshot accepted with every client connected and taken by one
\* stream is delivered to, or still waiting for, every other stream
FanOut ==
    [][\A a \in Subscribers :
         (HeadForAll /\ Takes(a)) =>
            \A b \in Subscribers \ {a} :
               Head(events_q) \in yielded'[b] \cup Range(events_q')]_vars

\* C6: a producer that has reached its offer gets past it, and the WebSocket
\* thread gets through the engine call, whatever the queue holds and whether
\* or not a stream consumes
OfferCompletes ==
    /\ (ws_pc = "engine") ~> (ws_pc = "offer")
    /\ (ws_pc = "offer") ~> (ws_pc = "idle")
    /\ \A p \in PollerIds : (pc[p] = "offer") ~> (pc[p] = "sleep")

OfferCompletesWitness ==
    /\ last_put.res = "full"
    /\ subscribers = {}
    /\ ws_pc = "engine"
    /\ \E p \in PollerIds : pc[p] = "sleep" /\ ~failed[p]

\* C7: the queue never holds more snapshots than its capacity
QueueBounded == Len(events_q) <= maxsize

QueueBoundedWitness ==
    /\ Len(events_q) = maxsize
    /\ last_put.res = "full"
    /\ \E p \in PollerIds : pc[p] = "offer"
    /\ ws_pc = "offer"

\* C8: an offer to a full queue discards the oldest snapshot and enqueues the
\* new one, so the snapshot just offered is in the queue after every offer
DropOldest ==
    [][AnyOfferStep =>
         events_q' = IF Len(events_q) >= maxsize
                     THEN Append(Tail(events_q), Snapshot)
                     ELSE Append(events_q, Snapshot)]_vars

\* C8 as amended: an offer to a full queue discards the offered snapshot and
\* leaves the queue as it was; an offer to a queue with room appends it
DropNewest ==
    [][AnyOfferStep =>
         events_q' = IF Len(events_q) >= maxsize
                     THEN events_q
                     ELSE Append(events_q, Snapshot)]_vars

DropNewestWitness ==
    /\ last_put.res = "full"
    /\ last_put.snap \notin Range(events_q)
    /\ Len(events_q) = maxsize

\* C9: a failed poll attempt neither ends the loop nor leaves it: a poller
\* ends only by its stop flag, and after a failure it reaches a further
\* attempt unless it was stopped
RetryAfterFailure ==
    \A p \in PollerIds :
        /\ [](pc[p] = "done" => stop_flag[p])
        /\ (failed[p] /\ pc[p] = "sleep") ~> (pc[p] = "try" \/ stop_flag[p])

RetryAfterFailureWitness ==
    \E p \in PollerIds : pc[p] = "try" /\ failed[p] /\ ~stop_flag[p]

\* C11: with fallback enabled the state the token records follows the most
\* recent primary event alone: FALLBACK_ACTIVE exactly after primary_error or
\* primary_closed, PRIMARY_ACTIVE after primary_opened or before any event,
\* however many errors came before
LevelTriggered ==
    enable_fallback_poller =>
        (ChannelState = "FALLBACK_ACTIVE" <=> last_event \in {"error", "closed"})

LevelTriggeredWitness ==
    /\ enable_fallback_poller
    /\ stopped # {}
    /\ burst_len >= 2
    /\ last_event = "error"
    /\ ChannelState = "FALLBACK_ACTIVE"

\* ---- indicators.py: numbers -----------------------------------------------------
\* A float is modelled by the exact fraction <<n, d>> in lowest terms, d > 0;
\* the None that the lists of indicators.py hold in place of a float is <<>>.
NoneF == <<>>

Abs(x) == IF x < 0 THEN -x ELSE x

RECURSIVE GCD(_, _)
GCD(a, b) == IF b = 0 THEN a ELSE GCD(b, a % b)

\* the float n / d, d # 0
Frac(n, d) ==
    LET g == GCD(Abs(n), Abs(d))
        sgn == IF d < 0 THEN -1 ELSE 1
    IN  <<sgn * (n \div g), sgn * (d \div g)>>

\* float(i)
Float(i) == <<i, 1>>

FAdd(x, y) == Frac(x[1] * y[2] + y[1] * x[2], x[2] * y[2])
FSub(x, y) == Frac(x[1] * y[2] - y[1] * x[2], x[2] * y[2])
FMul(x, y) == Frac(x[1] * y[1], x[2] * y[2])
\* x / y, y # 0
FDiv(x, y) == Frac(x[1] * y[2], x[2] * y[1])
FLe(x, y) == x[1] * y[2] <= y[1] * x[2]
FLt(x, y) == x[1] * y[2] < y[1] * x[2]
FNeg(x) == <<-x[1], x[2]>>
IsZero(x) == x[1] = 0

\* sum(xs) of a list of floats
RECURSIVE Sum(_)
Sum(xs) == IF xs = <<>> THEN Float(0) ELSE FAdd(Head(xs), Sum(Tail(xs)))

\* what a call does: returns val, or raises exc
Returns(v) == [exc |-> "none", val |-> v]
Raises(e) == [exc |-> e, val |-> <<>>]

\* ---- indicators.py: sma and ema -----------------------------------------------
\* a window that is never trimmed
SmaWindow_NoPop(window, v, period) == Append(window, v)

\* the window after one more value: append, then drop the oldest beyond period
SmaWindow(window, v, period) ==
    LET w1 == Append(window, v)
    IN  IF Len(w1) > period THEN Tail(w1) ELSE w1

\* the for loop of sma from the i-th value on
RECURSIVE SmaLoop(_, _, _, _, _)
SmaLoop(values, period, i, window, out) ==
    IF i > Len(values)
    THEN Returns(out)
    ELSE LET w2 == SmaWindow(window, values[i], period)
         IN  IF Len(w2) < period
             THEN SmaLoop(values, period, i + 1, w2, Append(out, NoneF))
             ELSE IF period = 0
                  THEN Raises("ZeroDivisionError")
                  ELSE SmaLoop(values, period, i + 1, w2,
                               Append(out, FDiv(Sum(w2), Float(period))))

sma(values, period) == SmaLoop(values, period, 1, <<>>, <<>>)

\* a seed that looks at the whole list
EmaSeed_WholeList(values, period) == FDiv(Sum(values), Float(Len(values)))

\* the initial EMA: the SMA of the first complete window
EmaSeed(values, period) == FDiv(Sum(SubSeq(values, 1, period)), Float(period))

\* the two weights exchanged
EmaNext_SwappedWeights(v, ema_prev, period) ==
    LET kf == Frac(2, period + 1)
    IN  FAdd(FMul(v, FSub(Float(1), kf)), FMul(ema_prev, kf))

\* EMA_t = price_t * k + EMA_{t-1} * (1 - k), k = 2 / (period + 1)
EmaNext(v, ema_prev, period) ==
    LET kf == Frac(2, period + 1)
        prev == IF ema_prev # NoneF THEN ema_prev ELSE v
    IN  FAdd(FMul(v, kf), FMul(prev, FSub(Float(1), kf)))

\* the for loop of ema; i is the index of enumerate plus one
RECURSIVE EmaLoop(_, _, _, _, _)
EmaLoop(values, period, i, ema_prev, out) ==
    IF i > Len(values)
    THEN Returns(out)
    ELSE IF i - 1 < period - 1
    THEN EmaLoop(values, period, i + 1, ema_prev, Append(out, NoneF))
    ELSE IF i - 1 = period - 1
    THEN LET seed == EmaSeed(values, period)
         IN  EmaLoop(values, period, i + 1, seed, Append(out, seed))
    ELSE LET ema_curr == EmaNext(values[i], ema_prev, period)
         IN  EmaLoop(values, period, i + 1, ema_curr, Append(out, ema_curr))

ema(values, period) ==
    IF period <= 0
    THEN Raises("ValueError")
    ELSE EmaLoop(values, period, 1, NoneF, <<>>)

\* ---- indicators.py: crossover -------------------------------------------------
CrossSignal(golden, death) == [golden_cross |-> golden, death_cross |-> death]

\* a golden cross that needs the EMA strictly below before
Golden_Strict(prev_ema, curr_ema, prev_ma, curr_ma) ==
    FLt(prev_ema, prev_ma) /\ FLt(curr_ma, curr_ema)

Golden(prev_ema, curr_ema, prev_ma, curr_ma) ==
    FLe(prev_ema, prev_ma) /\ FLt(curr_ma, curr_ema)

\* a death cross decided by the previous pair alone
Death_PrevOnly(prev_ema, curr_ema, prev_ma, curr_ma) == FLe(prev_ma, prev_ema)

Death(prev_ema, curr_ema, prev_ma, curr_ma) ==
    FLe(prev_ma, prev_ema) /\ FLt(curr_ema, curr_ma)

crossover(ema_list, ma_list) ==
    IF ema_list = <<>> \/ ma_list = <<>>
    THEN Returns(CrossSignal(FALSE, FALSE))
    ELSE IF Len(ema_list) < 2 \/ Len(ma_list) < 2
    THEN Returns(CrossSignal(FALSE, FALSE))
    ELSE LET prev_ema == ema_list[Len(ema_list) - 1]
             curr_ema == ema_list[Len(ema_list)]
             prev_ma == ma_list[Len(ma_list) - 1]
             curr_ma == ma_list[Len(ma_list)]
         IN  IF NoneF \in {prev_ema, curr_ema, prev_ma, curr_ma}
             THEN Returns(CrossSignal(FALSE, FALSE))
             ELSE Returns(CrossSignal(Golden(prev_ema, curr_ema, prev_ma, curr_ma),
                                      Death(prev_ema, curr_ema, prev_ma, curr_ma)))

\* ---- indicators.py: ema_slope and slope_ok --------------------------------------
\* the whole series instead of its last lookback entries
Window_Whole(series, lookback) == series

\* series[-lookback:], lookback >= 1
Window(series, lookback) ==
    IF lookback >= Len(series)
    THEN series
    ELSE SubSeq(series, Len(series) - lookback + 1, Len(series))

\* [v for v in series[-lookback:] if v is not None]
Vals(series, lookback) == SelectSeq(Window(series, lookback), LAMBDA v : v # NoneF)

\* the "linreg" branch: x = 0..n-1, y = vals
LinReg(vals) ==
    LET n == Len(vals)
        xs == [i \in 1..n |-> Float(i - 1)]
        mean_x == FDiv(Sum(xs), Float(n))
        mean_y == FDiv(Sum(vals), Float(n))
        var_x == Sum([i \in 1..n |-> FMul(FSub(xs[i], mean_x), FSub(xs[i], mean_x))])
        cov_xy == Sum([i \in 1..n |-> FMul(FSub(xs[i], mean_x), FSub(vals[i], mean_y))])
    IN  IF IsZero(var_x) THEN NoneF ELSE FDiv(cov_xy, var_x)

\* the default branch: the mean of the differences
MeanDiff(vals) ==
    LET diffs == [i \in 1..(Len(vals) - 1) |-> FSub(vals[i + 1], vals[i])]
    IN  FDiv(Sum(diffs), Float(Len(diffs)))

\* the raw slope whatever normalize_by_ema says
Normalize_Ignored(slope, curr, normalize_by_ema) == slope

\* if normalize_by_ema and curr and curr != 0: slope = slope / curr
Normalize(slope, curr, normalize_by_ema) ==
    IF normalize_by_ema /\ ~IsZero(curr) THEN FDiv(slope, curr) ELSE slope

ema_slope(series, lookback, mode, normalize_by_ema) ==
    IF lookback < 2
    THEN Returns(NoneF)
    ELSE LET vals == Vals(series, lookback)
         IN  IF Len(vals) < lookback
             THEN Returns(NoneF)
             ELSE LET curr == vals[Len(vals)]
                      slope == IF mode = "linreg" THEN LinReg(vals) ELSE MeanDiff(vals)
                  IN  IF slope = NoneF
                      THEN Returns(NoneF)
                      ELSE Returns(Normalize(slope, curr, normalize_by_ema))

\* a long threshold that the slope must exceed
LongOk_Strict(s, min_slope) == FLt(min_slope, s)

LongOk(s, min_slope) == FLe(min_slope, s)

\* the short threshold without the sign change
ShortOk_NoNeg(s, min_slope) == FLe(s, min_slope)

ShortOk(s, min_slope) == FLe(s, FNeg(min_slope))

slope_ok(series, lookback, min_slope, mode, normalize_by_ema, strict_monotonic) ==
    LET s == ema_slope(series, lookback, mode, normalize_by_ema).val
    IN  IF s = NoneF
        THEN Returns(<<FALSE, FALSE>>)
        ELSE IF ~strict_monotonic
        THEN Returns(<<LongOk(s, min_slope), ShortOk(s, min_slope)>>)
        ELSE LET vals == Vals(series, lookback)
                 inc_ok == \A i \in 1..(Len(vals) - 1) : FLt(vals[i], vals[i + 1])
                 dec_ok == \A i \in 1..(Len(vals) - 1) : FLt(vals[i + 1], vals[i])
             IN  IF Len(vals) < lookback
                 THEN Returns(<<FALSE, FALSE>>)
                 ELSE Returns(<<LongOk(s, min_slope) /\ inc_ok,
                                ShortOk(s, min_slope) /\ dec_ok>>)

\* ---- indicators.py: the calls ---------------------------------------------------
\* lists of at most MaxLen items of S
ListsOf(S) == UNION {[1..n -> S] : n \in 0..MaxLen}

Floats == {Float(i) : i \in -1..MaxVal}
FloatLists == ListsOf(Floats)
Periods == -1..MaxLen

\* the arguments of sma(values, period) and ema(values, period)
MaArgs(f, values, period) == [NoArgs EXCEPT !.fn = f, !.list1 = values, !.n = period]

\* the arguments of crossover(ema_list, ma_list): indicator lists, None where undefined
CrossLists == ListsOf({NoneF} \cup {Float(i) : i \in 0..MaxVal})
CrossArgs(ema_list, ma_list) ==
    [NoArgs EXCEPT !.fn = "crossover", !.list1 = ema_list, !.list2 = ma_list]

\* the arguments of ema_slope(series, lookback, mode, normalize_by_ema)
Series == ListsOf({NoneF} \cup Floats)
Lookbacks == 0..MaxLen
Modes == {"mean_diff", "linreg"}
SlopeArgs(series, lookback, mode, normalize_by_ema) ==
    [NoArgs EXCEPT !.fn = "ema_slope", !.list1 = series, !.n = lookback, !.mode = mode,
                   !.normalize_by_ema = normalize_by_ema]

\* the further arguments of slope_ok
MinSlopes == {Float(0), Frac(1, 2), Float(1)}
SlopeOkArgs(a, min_slope, strict_monotonic) ==
    [a EXCEPT !.fn = "slope_ok", !.min_slope = min_slope,
              !.strict_monotonic = strict_monotonic]

InitIndicators ==
    /\ InitPipeline
    /\ ~enable_poller
    /\ timestamps = <<>>
    /\ \/ \E f \in {"sma", "ema"}, values \in FloatLists, period \in Periods :
             args = MaArgs(f, values, period)
       \/ \E ema_list \in CrossLists, ma_list \in CrossLists :
             args = CrossArgs(ema_list, ma_list)
       \/ \E series \in Series, lookback \in Lookbacks, mode \in Modes,
             normalize_by_ema \in BOOLEAN :
             LET a == SlopeArgs(series, lookback, mode, normalize_by_ema)
             IN  \/ args = a
                 \/ \E min_slope \in MinSlopes, strict_monotonic \in BOOLEAN :
                       args = SlopeOkArgs(a, min_slope, strict_monotonic)
    /\ ret = NoRet

Call(f, r) ==
    /\ args.fn = f
    /\ ret.fn = "none"
    /\ ret' = [fn |-> f, exc |-> r.exc, val |-> r.val]
    /\ UNCHANGED <<enable_poller, ctl_vars, poller_vars, ws_vars, timestamps, now,
                   q_vars, sub_vars, args>>

CallSma == Call("sma", sma(args.list1, args.n))

CallEma == Call("ema", ema(args.list1, args.n))

CallCrossover == Call("crossover", crossover(args.list1, args.list2))

CallEmaSlope ==
    Call("ema_slope", ema_slope(args.list1, args.n, args.mode, args.normalize_by_ema))

CallSlopeOk ==
    Call("slope_ok", slope_ok(args.list1, args.n, args.min_slope, args.mode,
                              args.normalize_by_ema, args.strict_monotonic))

NextIndicators == CallSma \/ CallEma \/ CallCrossover \/ CallEmaSlope \/ CallSlopeOk

SpecIndicators == InitIndicators /\ [][NextIndicators]_vars

\* ---- claims on sma and ema ------------------------------------------------------
\* the arithmetic mean of values[lo..hi]
Mean(values, lo, hi) == FDiv(Sum(SubSeq(values, lo, hi)), Float(hi - lo + 1))

Did(f) == ret.fn = f /\ ret.exc = "none"

\* C12: for period p >= 1, sma returns a list as long as its input, None at
\* the first p-1 places and the mean of the trailing p values at every other
SmaIsTrailingMean ==
    (ret.fn = "sma" /\ args.n >= 1) =>
        /\ ret.exc = "none"
        /\ Len(ret.val) = Len(args.list1)
        /\ \A i \in 1..Len(args.list1) :
              ret.val[i] = IF i < args.n
                           THEN NoneF
                           ELSE Mean(args.list1, i - args.n + 1, i)

SmaIsTrailingMeanWitness ==
    /\ Did("sma")
    /\ args.n = 2
    /\ Len(args.list1) = MaxLen
    /\ ret.val[1] = NoneF
    /\ ret.val[MaxLen] # ret.val[2]

\* C13: for period p >= 1, ema returns a list as long as its input, None
\* before index p-1, sma(values, p)[p-1] (the mean of the first p values) at
\* index p-1, and values[i]*k + EMA[i-1]*(1-k) with k = 2/(p+1) after it
EmaIsSeededRecursion ==
    (ret.fn = "ema" /\ args.n >= 1) =>
        LET p == args.n
            kf == Frac(2, p + 1)
        IN  /\ ret.exc = "none"
            /\ Len(ret.val) = Len(args.list1)
            /\ \A i \in 1..Len(args.list1) :
                  IF i < p
                  THEN ret.val[i] = NoneF
                  ELSE IF i = p
                  THEN /\ ret.val[i] = sma(args.list1, p).val[p]
                       /\ ret.val[i] = Mean(args.list1, 1, p)
                  ELSE ret.val[i] = FAdd(FMul(args.list1[i], kf),
                                         FMul(ret.val[i - 1], FSub(Float(1), kf)))

EmaIsSeededRecursionWitness ==
    /\ Did("ema")
    /\ args.n = 2
    /\ Len(args.list1) = MaxLen
    /\ ret.val[1] = NoneF
    /\ ret.val[MaxLen] \notin {ret.val[2], args.list1[MaxLen]}

\* the function that was called, applied to other values
Recompute(values) ==
    IF ret.fn = "sma" THEN sma(values, args.n) ELSE ema(values, args.n)

\* C14: for period p >= 1 and every prefix length m, ema of the first m
\* values agrees with ema of the whole list at every index below m, and
\* likewise sma
PrefixStable ==
    (ret.fn \in {"sma", "ema"} /\ args.n >= 1) =>
        \A m \in 0..Len(args.list1) :
            LET prefix == Recompute(SubSeq(args.list1, 1, m))
            IN  /\ prefix.exc = "none"
                /\ Len(prefix.val) = m
                /\ \A i \in 1..m : prefix.val[i] = ret.val[i]

PrefixStableWitness ==
    /\ Did("ema")
    /\ args.n = 2
    /\ Len(args.list1) = MaxLen
    /\ args.list1[MaxLen] # args.list1[1]
    /\ Recompute(SubSeq(args.list1, 1, 2)).val[2] = ret.val[2]
    /\ ret.val[2] # NoneF

\* ---- claims on crossover ----------------------------------------------------------
\* the last but j-th entry of a list
FromEnd(xs, j) == xs[Len(xs) - j]

\* both lists have two entries at least and none of the last two pairs is None
LastTwoPairsDefined ==
    /\ Len(args.list1) >= 2
    /\ Len(args.list2) >= 2
    /\ NoneF \notin {FromEnd(args.list1, 1), FromEnd(args.list1, 0),
                     FromEnd(args.list2, 1), FromEnd(args.list2, 0)}

\* C15: crossover is decided by the two most recent (EMA, MA) pairs alone:
\* golden_cross iff prev_EMA <= prev_MA and curr_EMA > curr_MA, death_cross
\* iff prev_EMA >= prev_MA and curr_EMA < curr_MA, and both false when a list
\* has fewer than two entries or one of the four values is None
CrossoverOfLastTwoPairs ==
    ret.fn = "crossover" =>
        /\ ret.exc = "none"
        /\ ret.val.golden_cross =
              (/\ LastTwoPairsDefined
               /\ FLe(FromEnd(args.list1, 1), FromEnd(args.list2, 1))
               /\ FLt(FromEnd(args.list2, 0), FromEnd(args.list1, 0)))
        /\ ret.val.death_cross =
              (/\ LastTwoPairsDefined
               /\ FLe(FromEnd(args.list2, 1), FromEnd(args.list1, 1))
               /\ FLt(FromEnd(args.list1, 0), FromEnd(args.list2, 0)))

CrossoverOfLastTwoPairsWitness ==
    /\ ret.fn = "crossover"
    /\ Len(args.list1) = MaxLen
    /\ Len(args.list2) = 2
    /\ args.list1[1] = NoneF
    /\ FromEnd(args.list1, 1) = FromEnd(args.list2, 1)
    /\ ret.val.golden_cross
    /\ ~ret.val.death_cross

\* ---- claims on ema_slope and slope_ok ----------------------------------------------
\* the last n entries of a list of n entries at least
LastN(xs, n) == SubSeq(xs, Len(xs) - n + 1, Len(xs))

\* the last lookback entries of the series exist and none is None
WindowDefined ==
    /\ args.n <= Len(args.list1)
    /\ \A i \in 1..args.n : FromEnd(args.list1, i - 1) # NoneF

\* the mean of the first differences of w
MeanOfDifferences(w) ==
    FDiv(Sum([i \in 1..(Len(w) - 1) |-> FSub(w[i + 1], w[i])]), Float(Len(w) - 1))

\* the least-squares slope of w against 0..Len(w)-1:
\* (n*Sxy - Sx*Sy) / (n*Sxx - Sx*Sx)
LeastSquaresSlope(w) ==
    LET n == Float(Len(w))
        Sx == Sum([i \in 1..Len(w) |-> Float(i - 1)])
        Sy == Sum(w)
        Sxy == Sum([i \in 1..Len(w) |-> FMul(Float(i - 1), w[i])])
        Sxx == Sum([i \in 1..Len(w) |-> Float((i - 1) * (i - 1))])
    IN  FDiv(FSub(FMul(n, Sxy), FMul(Sx, Sy)), FSub(FMul(n, Sxx), FMul(Sx, Sx)))

\* C16: when the last lookback >= 2 values of the series are all defined,
\* ema_slope returns the mean of their first differences (mean_diff) or
\* their least-squares slope against 0..lookback-1 (linreg), divided by the
\* most recent value when normalize_by_ema is set and that value is not zero
SlopeOfWindow ==
    (ret.fn = "ema_slope" /\ args.n >= 2 /\ WindowDefined) =>
        LET w == LastN(args.list1, args.n)
            raw == IF args.mode = "mean_diff"
                   THEN MeanOfDifferences(w)
                   ELSE LeastSquaresSlope(w)
        IN  /\ ret.exc = "none"
            /\ ret.val = IF args.normalize_by_ema /\ ~IsZero(Last(w))
                         THEN FDiv(raw, Last(w))
                         ELSE raw

SlopeOfWindowWitness ==
    /\ ret.fn = "ema_slope"
    /\ args.n = MaxLen
    /\ WindowDefined
    /\ args.mode = "linreg"
    /\ args.normalize_by_ema
    /\ Last(args.list1) = Float(-1)
    /\ ret.val = FNeg(LeastSquaresSlope(args.list1))
    /\ ~IsZero(ret.val)

\* the defined values of a list
DefinedIn(xs) == SelectSeq(xs, LAMBDA v : v # NoneF)

\* ema_slope returns None, without raising, exactly when lookback < 2 or
\* the whole series holds fewer than lookback defined values
NoneIffFewDefinedInSeries ==
    ret.fn = "ema_slope" =>
        /\ ret.exc = "none"
        /\ (ret.val = NoneF) = (args.n < 2 \/ Len(DefinedIn(args.list1)) < args.n)

\* C17: ema_slope never raises, and returns None exactly when lookback < 2
\* or the last lookback entries of the series are not all defined (the
\* series is shorter than lookback, or one of them is None); otherwise a number
NoneIffWindowUndefined ==
    ret.fn = "ema_slope" =>
        /\ ret.exc = "none"
        /\ (ret.val = NoneF) = (args.n < 2 \/ ~WindowDefined)
        /\ ret.val # NoneF => (Len(ret.val) = 2 /\ ret.val[2] > 0)

NoneIffWindowUndefinedWitness ==
    /\ ret.fn = "ema_slope"
    /\ ret.exc = "none"
    /\ args.n = 2
    /\ Len(DefinedIn(args.list1)) >= 2
    /\ Last(args.list1) = NoneF
    /\ ret.val = NoneF

\* the slope that slope_ok computes from its arguments
SlopeOfArgs == ema_slope(args.list1, args.n, args.mode, args.normalize_by_ema).val

StrictlyIncreasing(w) == \A i \in 1..(Len(w) - 1) : FLt(w[i], w[i + 1])

StrictlyDecreasing(w) == \A i \in 1..(Len(w) - 1) : FLt(w[i + 1], w[i])

\* C18: slope_ok returns long_ok iff slope >= min_slope and short_ok iff
\* slope <= -min_slope, each with strict_monotonic also requiring the
\* lookback window to be strictly increasing, respectively decreasing; and
\* (False, False) when the slope is undefined
SlopeOkThresholds ==
    ret.fn = "slope_ok" =>
        /\ ret.exc = "none"
        /\ IF SlopeOfArgs = NoneF
           THEN ret.val = <<FALSE, FALSE>>
           ELSE LET w == LastN(args.list1, args.n)
                IN  /\ ret.val[1] =
                          (/\ FLe(args.min_slope, SlopeOfArgs)
                           /\ args.strict_monotonic => StrictlyIncreasing(w))
                    /\ ret.val[2] =
                          (/\ FLe(SlopeOfArgs, FNeg(args.min_slope))
                           /\ args.strict_monotonic => StrictlyDecreasing(w))

\* a window that clears min_slope without being strictly monotonic
SlopeOkThresholdsWitness ==
    /\ ret.fn = "slope_ok"
    /\ args.strict_monotonic
    /\ args.n = MaxLen
    /\ SlopeOfArgs # NoneF
    /\ FLt(Float(0), args.min_slope)
    /\ FLe(args.min_slope, SlopeOfArgs)
    /\ ~StrictlyIncreasing(LastN(args.list1, args.n))
    /\ ret.val = <<FALSE, FALSE>>

\* C19: sma and ema raise for every period <= 0, whatever the list, and
\* ema_slope and slope_ok turn down every lookback < 2
InvalidParametersRejected ==
    /\ (ret.fn \in {"sma", "ema"} /\ args.n <= 0) => ret.exc # "none"
    /\ (ret.fn = "ema_slope" /\ args.n < 2) => (ret.exc # "none" \/ ret.val = NoneF)
    /\ (ret.fn = "slope_ok" /\ args.n < 2) =>
           (ret.exc # "none" \/ ret.val = <<FALSE, FALSE>>)

\* ---- claims on the events of the poll loop ----------------------------------------
\* poller p builds its event in this step
PollerBuilds(p) == pc[p] = "try" /\ pc'[p] = "engine"

\* poller p's call of the engine ends in this step
PollerHandsOver(p) == pc[p] = "engine" /\ pc'[p] # "engine"

\* C20: every event a poll loop hands to the engine has is_final = False
\* and open_time = close_time, equal to the engine's latest finalized
\* timestamp as read in that tick whenever the engine holds one; handing it
\* over leaves the finalized series as it was
PollEventsProvisional ==
    [][\A p \in PollerIds :
          /\ PollerBuilds(p) =>
                /\ ~k'[p].is_final
                /\ k'[p].open_time = k'[p].close_time
                /\ timestamps # <<>> => k'[p].close_time = Last(timestamps)
          /\ PollerHandsOver(p) =>
                /\ ~k[p].is_final
                /\ k[p].open_time = k[p].close_time
                /\ timestamps' = timestamps]_vars

PollEventsProvisionalWitness ==
    \E p \in PollerIds :
        /\ origin[p] = "fallback"
        /\ pc[p] = "engine"
        /\ timestamps # <<>>
        /\ ~k[p].is_final
        /\ k[p].close_time = Last(timestamps)
        /\ k[p].close_time > 0

\* ---- claims on the two flags of a result ------------------------------------------
\* C21: whatever the two lists (any lengths, None anywhere), crossover never
\* returns golden_cross and death_cross both true
CrossFlagsExclusive ==
    ret.fn = "crossover" =>
        /\ ret.exc = "none"
        /\ ~(ret.val.golden_cross /\ ret.val.death_cross)

\* a death cross on lists of different lengths, one of them with a None
CrossFlagsExclusiveWitness ==
    /\ ret.fn = "crossover"
    /\ Len(args.list1) = 2
    /\ Len(args.list2) = MaxLen
    /\ args.list2[1] = NoneF
    /\ FromEnd(args.list1, 1) = FromEnd(args.list2, 1)
    /\ ret.val.death_cross
    /\ ~ret.val.golden_cross

\* slope_ok never returns (True, True), for any min_slope >= 0
NeverBothDirections ==
    (ret.fn = "slope_ok" /\ FLe(Float(0), args.min_slope)) =>
        ret.val # <<TRUE, TRUE>>

\* C22: for min_slope >= 0, slope_ok returns (True, True) exactly when
\* min_slope is 0, strict_monotonic is unset and the slope is defined and
\* equal to 0; never for min_slope > 0 and never with strict_monotonic set
BothDirectionsOnlyAtZero ==
    (ret.fn = "slope_ok" /\ FLe(Float(0), args.min_slope)) =>
        /\ ret.exc = "none"
        /\ (ret.val = <<TRUE, TRUE>>) =
              (/\ IsZero(args.min_slope)
               /\ ~args.strict_monotonic
               /\ SlopeOfArgs # NoneF
               /\ IsZero(SlopeOfArgs))

\* a flat window at min_slope = 0 signals both directions
BothDirectionsOnlyAtZeroWitness ==
    /\ ret.fn = "slope_ok"
    /\ IsZero(args.min_slope)
    /\ ~args.strict_monotonic
    /\ args.n = MaxLen
    /\ WindowDefined
    /\ \A i \in 1..MaxLen : args.list1[i] = Float(1)
    /\ ret.val = <<TRUE, TRUE>>

====
